---- MODULE Spec2Model ----
(***************************************************************************)
(* Model of src/main.py: a straight-line script that fetches the Bank of   *)
(* China exchange-rate page, takes the first 37 characters of the text of  *)
(* row 8 of table 1, and mails them to the address in EMAIL through an     *)
(* SMTP session wrapped in try / except smtplib.SMTPException.             *)
(*                                                                         *)
(* One action per statement of the script.  The outcome of every call into *)
(* the network (urlopen, decode of the received bytes, connect, login,     *)
(* sendmail, quit) is a nondeterministic input of the action.  The         *)
(* exception classes are those the standard library raises: a refused or   *)
(* unresolvable connection is an OSError (not an SMTPException), a header  *)
(* or address of None is an AttributeError, protocol failures after the    *)
(* connection is up are SMTPException.                                     *)
(***************************************************************************)
EXTENDS Integers, Sequences, FiniteSets, TLC

VARIABLES page, environ, pc, defined, exc, status, trace, out,
          bs_obj, t, all_tr, pound, a,
          mail_host, mail_user, mail_pass, sender, receiver, receivers,
          message, smtpObj, handed

vars == <<page, environ, pc, defined, exc, status, trace, out,
          bs_obj, t, all_tr, pound, a,
          mail_host, mail_user, mail_pass, sender, receiver, receivers,
          message, smtpObj, handed>>

(* ---------------- bounds of the model ---------------- *)
MaxTables == 3
MaxRows == 10
MaxTextLen == 39

(* ---------------- constants of the program ---------------- *)
TableIndex == 1
RowIndex == 8
SnippetLen == 37
SubjectLiteral == "title"

(* ---------------- values ---------------- *)
NoneVal == "None"
Absent == "<absent>"
EnvNames == {"EMAIL_HOST", "USER", "PASS", "EMAIL"}
HostValues == {NoneVal, "smtp.h"}
UserValues == {NoneVal, "u"}
PassValues == {NoneVal, "p"}
EmailValues == {NoneVal, "e1@x", "e2@x"}

Min(x, y) == IF x < y THEN x ELSE y

(* The character at position p of the rendered text of row j of table i    *)
(* (0-based i, j; 1-based p): rows differ from one another.                *)
Char(i, j, p) == 32 + ((i * 11 + j * 5 + p * 3) % 13)

RowText(i, j, n) == [p \in 1..n |-> Char(i, j, p)]

(* A page: the tables of the document in document order, each the sequence *)
(* of the rendered texts of its rows.                                      *)
MakePage(nT, rowsSecond, rowsOther, n) ==
    [i \in 1..nT |->
        [j \in 1..(IF i = TableIndex + 1 THEN rowsSecond ELSE rowsOther) |->
            RowText(i - 1, j - 1, n)]]

RowCounts == {0, RowIndex, RowIndex + 1, MaxRows}
TextLens == {0, 10, SnippetLen - 1, SnippetLen, SnippetLen + 1, MaxTextLen}

Pages == {MakePage(nT, rs, ro, n) : nT \in 0..MaxTables, rs \in RowCounts,
                                    ro \in {1, MaxRows}, n \in TextLens}

Environs == {[EMAIL_HOST |-> h, USER |-> u, PASS |-> p, EMAIL |-> e] :
                h \in HostValues, u \in UserValues, p \in PassValues,
                e \in EmailValues}

(* ---------------- pure helpers ---------------- *)
\* Python list indexing with a non-negative index.
InRange(s, k) == k < Len(s)

PyIndex(s, k) == s[k + 1]

\* A slice that keeps one character too many.
PySliceOffByOne(s, lo, hi) == SubSeq(s, lo + 1, Min(hi + 1, Len(s)))

\* Python slice s[lo:hi] with 0 <= lo <= hi.
PySlice(s, lo, hi) == SubSeq(s, lo + 1, Min(hi, Len(s)))

\* os.getenv(name): the value, or None when the variable is absent.
getenv(name) == environ[name]

\* MIMEText(text): a message with the text as payload and no address headers.
MIMEText(text) == [payload |-> text, Subject |-> Absent, From |-> Absent, To |-> Absent]

\* message[name] = value
SetHeader(m, name, value) == [m EXCEPT ![name] = value]

\* message.as_string(): a header set to None is rendered empty.
RenderHeader(v) == IF v = NoneVal THEN "" ELSE v

as_string(m) == [payload |-> m.payload,
                 Subject |-> RenderHeader(m.Subject),
                 From |-> RenderHeader(m.From),
                 To |-> RenderHeader(m.To)]

Event(op, res) == [op |-> op, res |-> res]

Line(tag, s, txt) == [tag |-> tag, s |-> s, txt |-> txt]

NoMessage == [payload |-> <<>>, Subject |-> Absent, From |-> Absent, To |-> Absent]

NoHanded == [from_addr |-> "", to_addrs |-> <<>>, msg |-> as_string(NoMessage)]

Init ==
    /\ page \in Pages
    /\ environ \in Environs
    /\ pc = "urlopen"
    /\ defined = {}
    /\ exc = ""
    /\ status = "running"
    /\ trace = <<>>
    /\ out = <<>>
    /\ bs_obj = <<>>
    /\ t = <<>>
    /\ all_tr = <<>>
    /\ pound = <<>>
    /\ a = <<>>
    /\ mail_host = ""
    /\ mail_user = ""
    /\ mail_pass = ""
    /\ sender = ""
    /\ receiver = ""
    /\ receivers = <<>>
    /\ message = NoMessage
    /\ smtpObj = "unbound"
    /\ handed = NoHanded

extractVars == <<bs_obj, t, all_tr, pound, a>>
credVars == <<mail_host, mail_user, mail_pass, sender, receiver, receivers>>
mailVars == <<message, smtpObj, handed>>
worldVars == <<page, environ>>

\* An exception that is recorded but lets the script go on to the mail step.
UncaughtContinue(e) ==
    /\ exc' = e
    /\ status' = status
    /\ pc' = "load_dotenv"

\* An exception nobody catches: traceback, abnormal exit.
Uncaught(e) ==
    /\ exc' = e
    /\ status' = "exit1"
    /\ pc' = "terminated"

\* r = urlopen(URL)
Urlopen ==
    /\ pc = "urlopen"
    /\ \E res \in {"ok", "URLError"} :
        /\ trace' = Append(trace, Event("GET", res))
        /\ IF res = "ok"
           THEN /\ pc' = "decode"
                /\ defined' = defined \cup {"r"}
                /\ UNCHANGED <<exc, status>>
           ELSE /\ Uncaught(res)
                /\ UNCHANGED defined
    /\ UNCHANGED <<worldVars, out, extractVars, credVars, mailVars>>

\* c = r.read().decode('utf8')
Decode ==
    /\ pc = "decode"
    /\ \E res \in {"ok", "UnicodeDecodeError"} :
        IF res = "ok"
        THEN /\ pc' = "parse"
             /\ defined' = defined \cup {"c"}
             /\ UNCHANGED <<exc, status>>
        ELSE /\ Uncaught(res)
             /\ UNCHANGED defined
    /\ UNCHANGED <<worldVars, trace, out, extractVars, credVars, mailVars>>

\* bs_obj = bs(c, 'html.parser')
Parse ==
    /\ pc = "parse"
    /\ bs_obj' = page
    /\ defined' = defined \cup {"bs_obj"}
    /\ pc' = "find_table"
    /\ UNCHANGED <<worldVars, exc, status, trace, out, t, all_tr, pound, a,
                   credVars, mailVars>>

\* t = bs_obj.find_all('table')[1]
FindTable ==
    /\ pc = "find_table"
    /\ IF InRange(bs_obj, TableIndex)
       THEN /\ t' = PyIndex(bs_obj, TableIndex)
            /\ defined' = defined \cup {"t"}
            /\ pc' = "find_tr"
            /\ UNCHANGED <<exc, status>>
       ELSE /\ Uncaught("IndexError")
            /\ UNCHANGED <<t, defined>>
    /\ UNCHANGED <<worldVars, trace, out, bs_obj, all_tr, pound, a,
                   credVars, mailVars>>

\* all_tr = t.find_all('tr')
FindTr ==
    /\ pc = "find_tr"
    /\ all_tr' = t
    /\ defined' = defined \cup {"all_tr"}
    /\ pc' = "index_row"
    /\ UNCHANGED <<worldVars, exc, status, trace, out, bs_obj, t, pound, a,
                   credVars, mailVars>>

\* A row lookup that falls back to an empty row instead of raising.
IndexRowDefault ==
    /\ pc = "index_row"
    /\ pound' = IF InRange(all_tr, RowIndex) THEN PyIndex(all_tr, RowIndex) ELSE <<>>
    /\ defined' = defined \cup {"pound"}
    /\ pc' = "slice"
    /\ UNCHANGED <<worldVars, exc, status, trace, out, bs_obj, t, all_tr, a,
                   credVars, mailVars>>

\* pound = all_tr[8]
IndexRow ==
    /\ pc = "index_row"
    /\ IF InRange(all_tr, RowIndex)
       THEN /\ pound' = PyIndex(all_tr, RowIndex)
            /\ defined' = defined \cup {"pound"}
            /\ pc' = "slice"
            /\ UNCHANGED <<exc, status>>
       ELSE /\ Uncaught("IndexError")
            /\ UNCHANGED <<pound, defined>>
    /\ UNCHANGED <<worldVars, trace, out, bs_obj, t, all_tr, a,
                   credVars, mailVars>>

\* a = pound.text[0:37]
Slice ==
    /\ pc = "slice"
    /\ a' = PySlice(pound, 0, SnippetLen)
    /\ defined' = defined \cup {"a"}
    /\ pc' = "print_a"
    /\ UNCHANGED <<worldVars, exc, status, trace, out, bs_obj, t, all_tr, pound,
                   credVars, mailVars>>

\* print(a)
PrintA ==
    /\ pc = "print_a"
    /\ out' = Append(out, Line("snippet", "", a))
    /\ trace' = Append(trace, Event("print", "snippet"))
    /\ pc' = "load_dotenv"
    /\ UNCHANGED <<worldVars, defined, exc, status, extractVars, credVars, mailVars>>

\* load_dotenv(): environ is the environment the script sees once the .env
\* file has been merged into it; the call itself raises nothing.
LoadDotenv ==
    /\ pc = "load_dotenv"
    /\ pc' = "getenv_host"
    /\ UNCHANGED <<worldVars, defined, exc, status, trace, out, extractVars,
                   credVars, mailVars>>

\* A host lookup that insists on the variable (os.environ['EMAIL_HOST']).
GetenvHostRequired ==
    /\ pc = "getenv_host"
    /\ trace' = Append(trace, Event("getenv", "EMAIL_HOST"))
    /\ IF getenv("EMAIL_HOST") = NoneVal
       THEN /\ Uncaught("KeyError")
            /\ UNCHANGED <<mail_host, defined>>
       ELSE /\ mail_host' = getenv("EMAIL_HOST")
            /\ defined' = defined \cup {"mail_host"}
            /\ pc' = "getenv_user"
            /\ UNCHANGED <<exc, status>>
    /\ UNCHANGED <<worldVars, out, extractVars, mail_user, mail_pass,
                   sender, receiver, receivers, mailVars>>

\* mail_host = os.getenv('EMAIL_HOST')
GetenvHost ==
    /\ pc = "getenv_host"
    /\ mail_host' = getenv("EMAIL_HOST")
    /\ defined' = defined \cup {"mail_host"}
    /\ trace' = Append(trace, Event("getenv", "EMAIL_HOST"))
    /\ pc' = "getenv_user"
    /\ UNCHANGED <<worldVars, exc, status, out, extractVars, mail_user, mail_pass,
                   sender, receiver, receivers, mailVars>>

\* mail_user = os.getenv('USER')
GetenvUser ==
    /\ pc = "getenv_user"
    /\ mail_user' = getenv("USER")
    /\ defined' = defined \cup {"mail_user"}
    /\ trace' = Append(trace, Event("getenv", "USER"))
    /\ pc' = "getenv_pass"
    /\ UNCHANGED <<worldVars, exc, status, out, extractVars, mail_host, mail_pass,
                   sender, receiver, receivers, mailVars>>

\* mail_pass = os.getenv('PASS')
GetenvPass ==
    /\ pc = "getenv_pass"
    /\ mail_pass' = getenv("PASS")
    /\ defined' = defined \cup {"mail_pass"}
    /\ trace' = Append(trace, Event("getenv", "PASS"))
    /\ pc' = "getenv_sender"
    /\ UNCHANGED <<worldVars, exc, status, out, extractVars, mail_host, mail_user,
                   sender, receiver, receivers, mailVars>>

\* sender = os.getenv('EMAIL')
GetenvSender ==
    /\ pc = "getenv_sender"
    /\ sender' = getenv("EMAIL")
    /\ defined' = defined \cup {"sender"}
    /\ trace' = Append(trace, Event("getenv", "EMAIL"))
    /\ pc' = "getenv_receiver"
    /\ UNCHANGED <<worldVars, exc, status, out, extractVars, mail_host, mail_user,
                   mail_pass, receiver, receivers, mailVars>>

\* receiver = os.getenv('EMAIL')
GetenvReceiver ==
    /\ pc = "getenv_receiver"
    /\ receiver' = getenv("EMAIL")
    /\ defined' = defined \cup {"receiver"}
    /\ trace' = Append(trace, Event("getenv", "EMAIL"))
    /\ pc' = "receivers"
    /\ UNCHANGED <<worldVars, exc, status, out, extractVars, mail_host, mail_user,
                   mail_pass, sender, receivers, mailVars>>

\* receivers = [receiver]
MakeReceivers ==
    /\ pc = "receivers"
    /\ receivers' = <<receiver>>
    /\ defined' = defined \cup {"receivers"}
    /\ pc' = "print_sender"
    /\ UNCHANGED <<worldVars, exc, status, trace, out, extractVars, mail_host,
                   mail_user, mail_pass, sender, receiver, mailVars>>

\* print('sender', sender)
PrintSender ==
    /\ pc = "print_sender"
    /\ out' = Append(out, Line("sender", sender, <<>>))
    /\ trace' = Append(trace, Event("print", "sender"))
    /\ pc' = "mimetext"
    /\ UNCHANGED <<worldVars, defined, exc, status, extractVars, credVars, mailVars>>

\* message = MIMEText(a)
BuildMessage ==
    /\ pc = "mimetext"
    /\ message' = MIMEText(a)
    /\ defined' = defined \cup {"message"}
    /\ pc' = "set_subject"
    /\ UNCHANGED <<worldVars, exc, status, trace, out, extractVars, credVars,
                   smtpObj, handed>>

\* message['Subject'] = 'title'
SetSubject ==
    /\ pc = "set_subject"
    /\ message' = SetHeader(message, "Subject", SubjectLiteral)
    /\ pc' = "set_from"
    /\ UNCHANGED <<worldVars, defined, exc, status, trace, out, extractVars,
                   credVars, smtpObj, handed>>

\* A From header taken from the login name instead of the address.
SetFromUser ==
    /\ pc = "set_from"
    /\ message' = SetHeader(message, "From", mail_user)
    /\ pc' = "set_to"
    /\ UNCHANGED <<worldVars, defined, exc, status, trace, out, extractVars,
                   credVars, smtpObj, handed>>

\* message['From'] = sender
SetFrom ==
    /\ pc = "set_from"
    /\ message' = SetHeader(message, "From", sender)
    /\ pc' = "set_to"
    /\ UNCHANGED <<worldVars, defined, exc, status, trace, out, extractVars,
                   credVars, smtpObj, handed>>

\* message['To'] = receivers[0]
SetTo ==
    /\ pc = "set_to"
    /\ message' = SetHeader(message, "To", PyIndex(receivers, 0))
    /\ pc' = "smtp_new"
    /\ UNCHANGED <<worldVars, defined, exc, status, trace, out, extractVars,
                   credVars, smtpObj, handed>>

(* ---------------- the try block ---------------- *)
\* An exception raised inside the try block: the except clause takes it
\* when it is an smtplib.SMTPException, otherwise nobody does.
RaiseInTry(e) ==
    IF e = "SMTPException"
    THEN /\ exc' = e
         /\ pc' = "except"
         /\ UNCHANGED status
    ELSE Uncaught(e)

\* What connect can do: succeed, get a non-220 greeting (SMTPConnectError,
\* an SMTPException), or fail to open the socket (OSError).
ConnectOutcomes == {"ok", "SMTPException", "OSError"}

\* What login can do: succeed or fail at the protocol level; with a user
\* or password of None an authentication method may fail on None.encode.
LoginOutcomes(user, pass) ==
    {"ok", "SMTPException"} \cup
    (IF user = NoneVal \/ pass = NoneVal THEN {"AttributeError"} ELSE {})

\* What sendmail can do: with a sender or recipient of None the address
\* quoting fails on None.strip before anything is transmitted; otherwise it
\* succeeds or fails at the protocol level.
SendmailOutcomes(from_addr, to_addrs) ==
    IF from_addr = NoneVal \/ (\E i \in 1..Len(to_addrs) : to_addrs[i] = NoneVal)
    THEN {"AttributeError"}
    ELSE {"ok", "SMTPException"}

\* What quit can do: succeed or find the connection gone.
QuitOutcomes == {"ok", "SMTPException"}

\* smtpObj = smtplib.SMTP()
SmtpNew ==
    /\ pc = "smtp_new"
    /\ smtpObj' = "created"
    /\ defined' = defined \cup {"smtpObj"}
    /\ pc' = "connect"
    /\ UNCHANGED <<worldVars, exc, status, trace, out, extractVars, credVars,
                   message, handed>>

\* smtpObj.connect(mail_host, 25)
Connect ==
    /\ pc = "connect"
    /\ \E res \in ConnectOutcomes :
        /\ trace' = Append(trace, Event("connect", res))
        /\ IF res = "ok"
           THEN /\ smtpObj' = "connected"
                /\ pc' = "login"
                /\ UNCHANGED <<exc, status>>
           ELSE /\ RaiseInTry(res)
                /\ UNCHANGED smtpObj
    /\ UNCHANGED <<worldVars, defined, out, extractVars, credVars, message, handed>>

\* smtpObj.login(mail_user, mail_pass)
Login ==
    /\ pc = "login"
    /\ \E res \in LoginOutcomes(mail_user, mail_pass) :
        /\ trace' = Append(trace, Event("login", res))
        /\ IF res = "ok"
           THEN /\ smtpObj' = "authenticated"
                /\ pc' = "sendmail"
                /\ UNCHANGED <<exc, status>>
           ELSE /\ RaiseInTry(res)
                /\ UNCHANGED smtpObj
    /\ UNCHANGED <<worldVars, defined, out, extractVars, credVars, message, handed>>

\* smtpObj.sendmail(sender, receivers, message.as_string())
Sendmail ==
    /\ pc = "sendmail"
    /\ handed' = [from_addr |-> sender, to_addrs |-> receivers,
                  msg |-> as_string(message)]
    /\ \E res \in SendmailOutcomes(sender, receivers) :
        /\ trace' = Append(trace, Event("sendmail", res))
        /\ IF res = "ok"
           THEN /\ pc' = "quit"
                /\ UNCHANGED <<exc, status>>
           ELSE RaiseInTry(res)
    /\ UNCHANGED <<worldVars, defined, out, extractVars, credVars, message, smtpObj>>

\* A quit whose failure is ignored.
QuitIgnoringFailure ==
    /\ pc = "quit"
    /\ \E res \in QuitOutcomes :
        /\ trace' = Append(trace, Event("quit", res))
        /\ smtpObj' = "closed"
        /\ pc' = "print_success"
        /\ UNCHANGED <<exc, status>>
    /\ UNCHANGED <<worldVars, defined, out, extractVars, credVars, message, handed>>

\* smtpObj.quit()
Quit ==
    /\ pc = "quit"
    /\ \E res \in QuitOutcomes :
        /\ trace' = Append(trace, Event("quit", res))
        /\ IF res = "ok"
           THEN /\ smtpObj' = "closed"
                /\ pc' = "print_success"
                /\ UNCHANGED <<exc, status>>
           ELSE /\ RaiseInTry(res)
                /\ UNCHANGED smtpObj
    /\ UNCHANGED <<worldVars, defined, out, extractVars, credVars, message, handed>>

\* print('success')
PrintSuccess ==
    /\ pc = "print_success"
    /\ out' = Append(out, Line("success", "", <<>>))
    /\ trace' = Append(trace, Event("print", "success"))
    /\ pc' = "end"
    /\ UNCHANGED <<worldVars, defined, exc, status, extractVars, credVars, mailVars>>

\* An except clause that goes back and tries the session again.
ExceptHandlerRetry ==
    /\ pc = "except"
    /\ out' = Append(out, Line("error", exc, <<>>))
    /\ trace' = Append(trace, Event("print", "error"))
    /\ exc' = ""
    /\ pc' = "connect"
    /\ UNCHANGED <<worldVars, defined, status, extractVars, credVars, mailVars>>

\* except smtplib.SMTPException as e: print('error', e)
ExceptHandler ==
    /\ pc = "except"
    /\ out' = Append(out, Line("error", exc, <<>>))
    /\ trace' = Append(trace, Event("print", "error"))
    /\ exc' = ""
    /\ pc' = "end"
    /\ UNCHANGED <<worldVars, defined, status, extractVars, credVars, mailVars>>

\* The end of the script: the interpreter exits normally.
Exit ==
    /\ pc = "end"
    /\ status' = "exit0"
    /\ pc' = "terminated"
    /\ UNCHANGED <<worldVars, defined, exc, trace, out, extractVars, credVars, mailVars>>

Next ==
    \/ Urlopen \/ Decode \/ Parse \/ FindTable \/ FindTr \/ IndexRow \/ Slice
    \/ PrintA \/ LoadDotenv
    \/ GetenvHost \/ GetenvUser \/ GetenvPass \/ GetenvSender \/ GetenvReceiver
    \/ MakeReceivers \/ PrintSender
    \/ BuildMessage \/ SetSubject \/ SetFrom \/ SetTo
    \/ SmtpNew \/ Connect \/ Login \/ Sendmail \/ Quit
    \/ PrintSuccess \/ ExceptHandler \/ Exit

Spec == Init /\ [][Next]_vars

\* The script is one sequential thread: a statement that can run does run.
FairSpec == Spec /\ WF_vars(Next)

(* ======================= observations ======================= *)
Has(op, res) == \E i \in 1..Len(trace) : trace[i] = Event(op, res)

Attempted(op) == \E i \in 1..Len(trace) : trace[i].op = op

Count(op) == Cardinality({i \in 1..Len(trace) : trace[i].op = op})

\* Position of the first event of an operation, 0 when there is none.
FirstPos(op) ==
    IF Attempted(op)
    THEN CHOOSE i \in 1..Len(trace) :
            /\ trace[i].op = op
            /\ \A k \in 1..(i - 1) : trace[k].op # op
    ELSE 0

PosOf(op, res) ==
    IF Has(op, res)
    THEN CHOOSE i \in 1..Len(trace) :
            /\ trace[i] = Event(op, res)
            /\ \A k \in 1..(i - 1) : trace[k] # Event(op, res)
    ELSE 0

Printed(tag) == \E i \in 1..Len(out) : out[i].tag = tag

Finished == status # "running"

SmtpOps == {"connect", "login", "sendmail", "quit"}

SmtpStepFailed == \E i \in 1..Len(trace) : trace[i].op \in SmtpOps /\ trace[i].res # "ok"

AllCredentialsPresent == \A n \in EnvNames : environ[n] # NoneVal

ExtractionFailed == exc \in {"URLError", "UnicodeDecodeError", "IndexError"}

GoodStructure == Len(page) >= 2 /\ Len(page[2]) >= 9

LookupsDone == "bs_obj" \in defined /\ pc \notin {"find_table", "find_tr", "index_row", "slice"}

(* ======================= claims ======================= *)

\* C1: in every finished run in which a step of the SMTP session failed
\* (all four credentials being present, so the failure is the server's or
\* the network's), the failure was caught: "error" was printed and the
\* process ended with the normal exit status.
C1_MailFailureSwallowed ==
    (Finished /\ AllCredentialsPresent /\ SmtpStepFailed)
        => (status = "exit0" /\ Printed("error"))

\* C2: when the fetch, the decode or a table/row lookup fails the run ends
\* abnormally with no credential read, no message built, no SMTP object or
\* connection, and neither "success" nor "error" printed; and the connect
\* step is attempted only after the snippet was extracted and printed.
C2_AbortBeforeMail ==
    /\ ExtractionFailed =>
        /\ status = "exit1"
        /\ ~Attempted("getenv")
        /\ {"mail_host", "mail_user", "mail_pass", "sender", "receiver",
            "message", "smtpObj"} \cap defined = {}
        /\ \A op \in SmtpOps : ~Attempted(op)
        /\ ~Printed("success") /\ ~Printed("error")
    /\ Attempted("connect") => ("a" \in defined /\ Printed("snippet"))

C2_Witness == exc = "IndexError" /\ status = "exit1" /\ "t" \in defined

\* C3: for a page with at least 2 tables whose second table has at least 9
\* rows, once the lookups are done the snippet is the first
\* min(37, length) characters of the text of row 8 of table 1, it is never
\* longer than 37, and a shorter text is kept whole, with no error raised.
C3_SnippetIsPrefix ==
    (GoodStructure /\ LookupsDone) =>
        LET rowtext == page[2][9] IN
        /\ "a" \in defined
        /\ exc # "IndexError"
        /\ Len(a) = Min(37, Len(rowtext))
        /\ Len(a) <= 37
        /\ \A i \in 1..Len(a) : a[i] = rowtext[i]
        /\ Len(rowtext) < 37 => a = rowtext

C3_Witness ==
    /\ GoodStructure /\ "a" \in defined
    /\ Len(page[2][9]) > 37
    /\ Len(a) = 37

\* C4: for a page with fewer than 2 tables, or a second table of fewer than
\* 9 rows, the lookups end in an IndexError: no snippet is ever bound or
\* printed, and the run ends abnormally.
C4_MissingStructureFails ==
    ~GoodStructure =>
        /\ "a" \notin defined
        /\ out = <<>>
        /\ LookupsDone => (status = "exit1" /\ exc = "IndexError")

C4_Witness ==
    /\ Len(page) >= 2 /\ Len(page[2]) = 8
    /\ exc = "IndexError" /\ status = "exit1"

\* C5: whenever sendmail is called and EMAIL has the value E, the message
\* handed over has From = E, To = E, Subject = "title" and the snippet as
\* body, the envelope sender is E and the recipient list is <<E>>; the
\* values of EMAIL_HOST, USER and PASS are in none of its fields.
C5_MessageShape ==
    (Attempted("sendmail") /\ environ["EMAIL"] # NoneVal) =>
        LET E == environ["EMAIL"] IN
        /\ handed.msg.From = E
        /\ handed.msg.To = E
        /\ handed.msg.Subject = "title"
        /\ handed.msg.payload = a
        /\ handed.msg.payload = out[1].txt
        /\ handed.from_addr = E
        /\ handed.to_addrs = <<E>>
        /\ {handed.msg.From, handed.msg.To, handed.msg.Subject, handed.from_addr}
             \cap ({environ["EMAIL_HOST"], environ["USER"], environ["PASS"]}
                     \ {NoneVal}) = {}

C5_Witness ==
    /\ Has("sendmail", "ok")
    /\ environ["USER"] # NoneVal
    /\ Len(a) = 37

\* C6: in a finished run that reached the mail step (all four credentials
\* being present), "success" is printed
\* whenever sendmail completed without error, "error" is printed only when
\* it did not, and the two are never both printed.
C6_OutcomeFollowsSend ==
    (Finished /\ AllCredentialsPresent /\ Attempted("connect")) =>
        /\ Has("sendmail", "ok") => Printed("success")
        /\ Printed("error") => ~Has("sendmail", "ok")
        /\ ~(Printed("success") /\ Printed("error"))

\* C7: a finished run that opened an SMTP connection (all four credentials
\* being present) has closed it with quit, whether login and sendmail
\* succeeded or failed.
C7_ConnectionClosed ==
    (Finished /\ AllCredentialsPresent /\ Has("connect", "ok"))
        => (Has("quit", "ok") /\ smtpObj = "closed")

\* C8: the GET and each of connect, login, sendmail and quit happen at
\* most once in a run, every step moves strictly forward in the script (no
\* statement runs again, after a failure or otherwise), and the run ends.
PcOrder ==
    <<"urlopen", "decode", "parse", "find_table", "find_tr", "index_row",
      "slice", "print_a", "load_dotenv", "getenv_host", "getenv_user",
      "getenv_pass", "getenv_sender", "getenv_receiver", "receivers",
      "print_sender", "mimetext", "set_subject", "set_from", "set_to",
      "smtp_new", "connect", "login", "sendmail", "quit", "print_success",
      "except", "end", "terminated">>

Rank(p) == CHOOSE i \in 1..Len(PcOrder) : PcOrder[i] = p

AtMostOnce == \A op \in {"GET"} \cup SmtpOps : Count(op) <= 1

C8_OneAttempt ==
    /\ []AtMostOnce
    /\ [][Rank(pc') > Rank(pc)]_vars
    /\ <>Finished

C8_Witness ==
    /\ status = "exit0" /\ Printed("error")
    /\ Count("GET") = 1 /\ Count("connect") = 1 /\ Count("login") = 1

\* C9: when a credential variable is absent, a run whose extraction
\* succeeded raises nothing before the SMTP session: at its end the snippet
\* and the sender line are printed, the message is built and connect was
\* attempted; an abnormal end is a failure of connect, login or sendmail.
C9_NoValidationOfEnv ==
    (~AllCredentialsPresent /\ "a" \in defined) =>
        /\ pc \in {"load_dotenv", "getenv_host", "getenv_user", "getenv_pass",
                   "getenv_sender", "getenv_receiver", "receivers",
                   "print_sender", "mimetext", "set_subject", "set_from",
                   "set_to", "smtp_new", "connect"} => status = "running"
        /\ Finished =>
            /\ Printed("snippet") /\ Printed("sender")
            /\ "message" \in defined
            /\ Count("connect") = 1
        /\ status = "exit1" =>
            /\ trace[Len(trace)].op \in {"connect", "login", "sendmail"}
            /\ trace[Len(trace)].res = exc

C9_Witness ==
    /\ environ["EMAIL_HOST"] = NoneVal
    /\ Attempted("connect")
    /\ Finished

\* C10: the snippet is printed before any credential is read, the sender
\* line before connect; login follows a successful connect, sendmail a
\* successful login, quit a successful sendmail, "success" a successful
\* quit; a run that reached connect has printed the snippet and the sender.
C10_FixedOrder ==
    /\ Attempted("getenv") =>
        (0 < PosOf("print", "snippet") /\ PosOf("print", "snippet") < FirstPos("getenv"))
    /\ Attempted("connect") =>
        /\ 0 < PosOf("print", "sender") /\ PosOf("print", "sender") < FirstPos("connect")
        /\ Len(out) >= 2 /\ out[1].tag = "snippet" /\ out[2].tag = "sender"
    /\ Attempted("login") =>
        (0 < PosOf("connect", "ok") /\ PosOf("connect", "ok") < FirstPos("login"))
    /\ Attempted("sendmail") =>
        (0 < PosOf("login", "ok") /\ PosOf("login", "ok") < FirstPos("sendmail"))
    /\ Attempted("quit") =>
        (0 < PosOf("sendmail", "ok") /\ PosOf("sendmail", "ok") < FirstPos("quit"))
    /\ Printed("success") =>
        (0 < PosOf("quit", "ok") /\ PosOf("quit", "ok") < PosOf("print", "success"))

C10_Witness == Printed("success") /\ Has("quit", "ok")

====
